---- MODULE Spec2Model ----
(***************************************************************************)
(* Crazy Eights (src/src/App.tsx, second App component, lines 407-947;     *)
(* src/src/utils/gameLogic.ts; types in src/unnamed/part_000).              *)
(*                                                                         *)
(* The React component is modelled as a state machine: the useState cells   *)
(* are the variables, every event handler is one action, and the AI        *)
(* useEffect is a pending timer that holds the render snapshot it closed    *)
(* over.  Handlers read `gameState` (the snapshot of the render they were   *)
(* created in) and write through functional updates `prev => ...` (the      *)
(* current state); the operators below keep the two apart as g and prev.   *)
(***************************************************************************)
EXTENDS Integers, Sequences, FiniteSets, TLC

(***************************************************************************)
(* Bounds.  The source builds 4 suits x 13 ranks and deals 8 cards; the     *)
(* model builds the first NumSuits suits x NumRanks consecutive ranks       *)
(* starting at the wild rank, deals INITIAL_HAND_SIZE cards, and draws      *)
(* Math.random() from NumSeeds streams.                                     *)
(***************************************************************************)
NumSuits == 2
NumRanks == 4
INITIAL_HAND_SIZE == 2
NumSeeds == 3
MaxMoves == 3
MaxMovesAnyCard == 2
MaxMovesFair == 2
MaxMovesStalemate == 9
MaxMovesBatched == 1

HistoryLimit == 10

\* const INITIAL_HAND_SIZE = 8, used by the games played with the whole deck
FullHandSize == 8
\* the seeds of the games played with the whole deck
NumFullSeeds == 3

\* ------------------------------------------------------------------ types
SUITS == <<"hearts", "diamonds", "clubs", "spades">>
RANKS == <<"A", "2", "3", "4", "5", "6", "7", "8", "9", "10", "J", "Q", "K">>

WildRank == "8"
WildIndex == CHOOSE i \in 1..Len(RANKS) : RANKS[i] = WildRank
UsedRanks == [i \in 1..NumRanks |-> RANKS[WildIndex + i - 1]]

NoRank == "null"
NoWinner == "null"
NoCard == [suit |-> "null", rank |-> "null"]

\* CardData: id is `${rank}-${suit}`, so a card is identified by the pair.
UsedSuits == [i \in 1..NumSuits |-> SUITS[i]]
Cards == {[suit |-> UsedSuits[s], rank |-> UsedRanks[r]] : s \in 1..NumSuits, r \in 1..NumRanks}

Range(s) == {s[i] : i \in 1..Len(s)}

\* ------------------------------------------------------------- gameLogic
\* SUITS.forEach(suit => RANKS.forEach(rank => deck.push(...)))
OrderedDeck ==
    [i \in 1..(NumSuits * NumRanks) |->
        [suit |-> UsedSuits[((i - 1) \div NumRanks) + 1],
         rank |-> UsedRanks[((i - 1) % NumRanks) + 1]]]

\* Math.random(): a stream of values x/16 in [0,1), advanced by one step per call.
RandomNext(x) == (x * 5 + 3) % 16
RandomIndex(x, n) == (x * n) \div 16

SwapAt(d, a, b) == [d EXCEPT ![a] = d[b], ![b] = d[a]]

\* for (i = n-1; i > 0; i--) { j = floor(random * (i+1)); swap(i, j) }   (0-based i, j)
RECURSIVE shuffleFrom(_, _, _)
shuffleFrom(d, i, x) ==
    IF i <= 0 THEN d
    ELSE shuffleFrom(SwapAt(d, i + 1, RandomIndex(x, i + 1) + 1), i - 1, RandomNext(x))

shuffle(deck, seed) == shuffleFrom(deck, Len(deck) - 1, seed)

createDeck(seed) == shuffle(OrderedDeck, seed)

\* the deck at its real size: every suit of SUITS with every rank of RANKS
FullOrderedDeck ==
    [i \in 1..(Len(SUITS) * Len(RANKS)) |->
        [suit |-> SUITS[((i - 1) \div Len(RANKS)) + 1],
         rank |-> RANKS[((i - 1) % Len(RANKS)) + 1]]]

createFullDeck(seed) == shuffle(FullOrderedDeck, seed)

\* variant: a non-wild card must match both the suit and the rank
canPlayCard_BothMatch(card, currentSuit, currentRank) ==
    IF card.rank = WildRank THEN TRUE
    ELSE card.suit = currentSuit /\ card.rank = currentRank

canPlayCard(card, currentSuit, currentRank) ==
    IF card.rank = WildRank THEN TRUE
    ELSE card.suit = currentSuit \/ card.rank = currentRank

getSuitSymbol(suit) ==
    CASE suit = "hearts" -> "H"
      [] suit = "diamonds" -> "D"
      [] suit = "clubs" -> "C"
      [] suit = "spades" -> "S"

\* ----------------------------------------------------------------- state
VARIABLES
    gameState,        \* useState<GameState>
    showSuitSelector, \* useState(false)
    pendingWildCard,  \* useState<CardData | null>
    history,          \* useState<GameState[]>
    aiTimer,          \* the pending setTimeout of the AI effect: <<>> or <<snapshot it closed over>>
    lastOp,           \* observation: the handler that ran last and the branch it took
    trip,             \* observation: the undo round trip under way (origin, actions, undos)
    ruleCall,         \* observation: the last call of canPlayCard made on its own, and its result
    aiSteps,          \* observation: opponent steps taken in the opponent turn under way
    lastDeal,         \* observation: the state the last deal produced
    undone,           \* observation: <<the state an undo has just replaced, the step
                      \* that had produced it>>, a third entry added by the opponent
                      \* step that follows the undo; <<>> otherwise
    rendered          \* <<gameState of the last render, timeout pending at that render>>
                      \* while a command has run since that render; <<>> otherwise

vars == <<gameState, showSuitSelector, pendingWildCard, history, aiTimer, lastOp, trip,
          ruleCall, aiSteps, lastDeal, undone, rendered>>

InitialGameState ==
    [deck |-> <<>>, playerHand |-> <<>>, aiHand |-> <<>>, discardPile |-> <<>>,
     currentSuit |-> "hearts", currentRank |-> NoRank,
     status |-> "waiting_to_start", winner |-> NoWinner,
     message |-> <<"welcome">>]

NoTrip == [origin |-> InitialGameState, fwd |-> 0, back |-> 0]

NoCall == [card |-> NoCard, currentSuit |-> "null", currentRank |-> NoRank, result |-> FALSE]

Init ==
    /\ gameState = InitialGameState
    /\ showSuitSelector = FALSE
    /\ pendingWildCard = NoCard
    /\ history = <<>>
    /\ aiTimer = <<>>
    /\ lastOp = [op |-> "mount", outcome |-> "none", held |-> TRUE]
    /\ trip = NoTrip
    /\ ruleCall = NoCall
    /\ aiSteps = 0
    /\ lastDeal = InitialGameState
    /\ undone = <<>>
    /\ rendered = <<>>

\* ------------------------------------------------------------ array helpers
\* hand.filter(c => c.id !== card.id)
FilterOut(hand, card) == SelectSeq(hand, LAMBDA c : c # card)
\* newHistory.slice(-10)
SliceLast(s, n) == IF Len(s) <= n THEN s ELSE SubSeq(s, Len(s) - n + 1, Len(s))
\* prev.slice(0, -1)  and  [...deck] minus pop()
\* variant: the first element is dropped, as shift() would
DropLast_DropsFirst(s) == SubSeq(s, 2, Len(s))

DropLast(s) == SubSeq(s, 1, Len(s) - 1)
\* variant: the card is read from the front of the array
Last_TakesFirst(s) == s[1]

Last(s) == s[Len(s)]

\* ------------------------------------------------------------ AI effect
\* useEffect deps: status, aiHand, currentSuit, currentRank, deck, winner
EffectDeps(g) == <<g.status, g.aiHand, g.currentSuit, g.currentRank, g.deck, g.winner>>

\* After a render with state new (previous render: old): when a dependency changed the
\* cleanup clears the pending timer and the effect body runs again.
RunEffect(old, new, timer) ==
    IF EffectDeps(old) = EffectDeps(new) THEN timer
    ELSE IF new.status = "ai_turn" /\ new.winner = NoWinner THEN <<new>>
    ELSE <<>>

\* ------------------------------------------------------------ history
\* variant: a full history drops the new snapshot instead of the oldest one
saveHistory_KeepsOldest(hist, g) ==
    IF Len(hist) < HistoryLimit THEN Append(hist, g) ELSE hist

saveHistory(hist, g) == SliceLast(Append(hist, g), HistoryLimit)

\* ------------------------------------------------------------ initGame
\* variant: the opening card is taken without scanning past the wild cards
firstDiscardIndexFrom_NoScan(fullDeck, i) == i

RECURSIVE firstDiscardIndexFrom(_, _)
firstDiscardIndexFrom(fullDeck, i) ==
    IF i > Len(fullDeck) THEN 0
    ELSE IF fullDeck[i].rank = WildRank THEN firstDiscardIndexFrom(fullDeck, i + 1) ELSE i

\* fullDeck[firstDiscardIndex] is undefined when the scan runs off the array: reading
\* .rank throws and the handler ends before any setState.
ScanThrowsFor(deck0, handSize) ==
    firstDiscardIndexFrom(SubSeq(deck0, 2 * handSize + 1, Len(deck0)), 1) = 0

ScanThrows(deck0) == ScanThrowsFor(deck0, INITIAL_HAND_SIZE)

\* the state initGame sets from the shuffled deck deck0, dealing handSize cards a hand
Deal(deck0, handSize) ==
    LET playerHand == SubSeq(deck0, 1, handSize)
        aiHand == SubSeq(deck0, handSize + 1, 2 * handSize)
        fullDeck == SubSeq(deck0, 2 * handSize + 1, Len(deck0))
        firstDiscardIndex == firstDiscardIndexFrom(fullDeck, 1)
        firstDiscard == fullDeck[firstDiscardIndex]
    IN [deck |-> SubSeq(fullDeck, 1, firstDiscardIndex - 1)
                    \o SubSeq(fullDeck, firstDiscardIndex + 1, Len(fullDeck)),
        playerHand |-> playerHand,
        aiHand |-> aiHand,
        discardPile |-> <<firstDiscard>>,
        currentSuit |-> firstDiscard.suit,
        currentRank |-> firstDiscard.rank,
        status |-> "player_turn",
        winner |-> NoWinner,
        message |-> <<"your turn">>]

DealtState(deck0) == Deal(deck0, INITIAL_HAND_SIZE)

\* variant: the deal keeps the undo stack
HistoryAfterDeal_Keeps(hist) == hist

\* setHistory([])
HistoryAfterDeal(hist) == <<>>

initGameWith(deck0, handSize) ==
    IF ScanThrowsFor(deck0, handSize) THEN
        /\ lastOp' = [op |-> "initGame", outcome |-> "threw", held |-> TRUE]
        /\ UNCHANGED <<gameState, showSuitSelector, pendingWildCard, history, aiTimer>>
    ELSE
        LET new == Deal(deck0, handSize) IN
        /\ gameState' = new
        /\ history' = HistoryAfterDeal(history)
        /\ aiTimer' = RunEffect(gameState, new, aiTimer)
        /\ lastOp' = [op |-> "initGame", outcome |-> "dealt", held |-> TRUE]
        /\ UNCHANGED <<showSuitSelector, pendingWildCard>>

initGame(seed) == initGameWith(createDeck(seed), INITIAL_HAND_SIZE)

\* ------------------------------------------------------------ executeMove
NoSuit == "undefined"

\* variant: the game is declared won one card early
StatusAfterPlay_OneCardEarly(newHand, isPlayer) ==
    IF Len(newHand) <= 1 THEN "game_over" ELSE IF isPlayer THEN "ai_turn" ELSE "player_turn"

\* newHand.length === 0 ? 'game_over' : (isPlayer ? 'ai_turn' : 'player_turn')
StatusAfterPlay(newHand, isPlayer) ==
    IF Len(newHand) = 0 THEN "game_over" ELSE IF isPlayer THEN "ai_turn" ELSE "player_turn"

\* variant: the active suit is the named suit even when none was named
SuitAfterPlay_OnlyNamed(card, newSuit) == newSuit

\* newSuit || card.suit
SuitAfterPlay(card, newSuit) == IF newSuit # NoSuit THEN newSuit ELSE card.suit

\* variant: every play clears the active rank, as a wild card does
RankAfterPlay_AlwaysNull(card) == NoRank

\* card.rank === '8' ? null : card.rank
RankAfterPlay(card) == IF card.rank = WildRank THEN NoRank ELSE card.rank

executeMove(who, card, newSuit, g, prev, hist) ==
    LET isPlayer == who = "player"
        hand == IF isPlayer THEN g.playerHand ELSE g.aiHand
        newHand == FilterOut(hand, card)
    IN [history |-> IF ~isPlayer THEN saveHistory(hist, g) ELSE hist,
        gameState |->
            [prev EXCEPT
                !.playerHand = IF isPlayer THEN newHand ELSE @,
                !.aiHand = IF isPlayer THEN @ ELSE newHand,
                !.discardPile = <<card>> \o @,
                !.currentSuit = SuitAfterPlay(card, newSuit),
                !.currentRank = RankAfterPlay(card),
                !.status = StatusAfterPlay(newHand, isPlayer),
                !.winner = IF Len(newHand) = 0 THEN who ELSE NoWinner,
                !.message = IF isPlayer THEN <<"AI is thinking">>
                            ELSE <<"AI played", card.rank, getSuitSymbol(card.suit)>>]]

\* ------------------------------------------------------------ player actions
\* whether the clicked card is one of the cards rendered in the human hand
Holds(card) == card \in Range(gameState.playerHand)

\* variant: only a finished game blocks the click
IsPlayerTurn_UnlessGameOver(g) == g.status # "game_over"

\* if (gameState.status !== 'player_turn') return;
IsPlayerTurn(g) == g.status = "player_turn"

\* variant: the wild card leaves the hand as soon as it is selected
SuitSelectionState_RemovesCard(prev, card) ==
    [prev EXCEPT !.status = "suit_selection", !.playerHand = FilterOut(@, card)]

\* setGameState(prev => ({ ...prev, status: 'suit_selection' }))
SuitSelectionState(prev, card) == [prev EXCEPT !.status = "suit_selection"]

\* variant: an unplayable card costs the human the turn
RejectedState_PassesTurn(prev) ==
    [prev EXCEPT !.message = <<"cannot play this card">>, !.status = "ai_turn"]

\* setGameState(prev => ({ ...prev, message: '...' }))
RejectedState(prev) == [prev EXCEPT !.message = <<"cannot play this card">>]

\* g is the gameState of the render the handler was created in, timer the timeout pending
\* since that render; the functional updates act on the current gameState and history.
handlePlayCardFrom(card, g, timer) ==
    IF ~IsPlayerTurn(g) THEN
        /\ lastOp' = [op |-> "playCard", outcome |-> "ignored", held |-> card \in Range(g.playerHand)]
        /\ UNCHANGED <<gameState, showSuitSelector, pendingWildCard, history, aiTimer>>
    ELSE IF ~canPlayCard(card, g.currentSuit, g.currentRank) THEN
        /\ gameState' = RejectedState(gameState)
        /\ aiTimer' = RunEffect(g, gameState', timer)
        /\ lastOp' = [op |-> "playCard", outcome |-> "rejected", held |-> card \in Range(g.playerHand)]
        /\ UNCHANGED <<showSuitSelector, pendingWildCard, history>>
    ELSE IF card.rank = WildRank THEN
        /\ history' = saveHistory(history, g)
        /\ pendingWildCard' = card
        /\ showSuitSelector' = TRUE
        /\ gameState' = SuitSelectionState(gameState, card)
        /\ aiTimer' = RunEffect(g, gameState', timer)
        /\ lastOp' = [op |-> "playCard", outcome |-> "wild", held |-> card \in Range(g.playerHand)]
    ELSE
        LET r == executeMove("player", card, NoSuit, g, gameState, saveHistory(history, g)) IN
        /\ history' = r.history
        /\ gameState' = r.gameState
        /\ aiTimer' = RunEffect(g, gameState', timer)
        /\ lastOp' = [op |-> "playCard", outcome |-> "played", held |-> card \in Range(g.playerHand)]
        /\ UNCHANGED <<showSuitSelector, pendingWildCard>>

\* the handler of the current render
handlePlayCard(card) == handlePlayCardFrom(card, gameState, aiTimer)

\* variant: an empty draw pile leaves the turn with the human
ForfeitState_KeepsTurn(prev) == [prev EXCEPT !.message = <<"draw pile empty, turn skipped">>]

\* setGameState(prev => ({ ...prev, status: 'ai_turn', message: '...' }))
ForfeitState(prev) ==
    [prev EXCEPT !.status = "ai_turn", !.message = <<"draw pile empty, turn skipped">>]

handleDrawCardFrom(g, timer) ==
    IF ~IsPlayerTurn(g) THEN
        /\ lastOp' = [op |-> "drawCard", outcome |-> "ignored", held |-> TRUE]
        /\ UNCHANGED <<gameState, showSuitSelector, pendingWildCard, history, aiTimer>>
    ELSE IF Len(g.deck) = 0 THEN
        /\ gameState' = ForfeitState(gameState)
        /\ aiTimer' = RunEffect(g, gameState', timer)
        /\ lastOp' = [op |-> "drawCard", outcome |-> "forfeit", held |-> TRUE]
        /\ UNCHANGED <<showSuitSelector, pendingWildCard, history>>
    ELSE
        LET newDeck == DropLast(g.deck)
            drawnCard == Last(g.deck)
        IN
        /\ history' = saveHistory(history, g)
        /\ gameState' = [gameState EXCEPT
                !.deck = newDeck,
                !.playerHand = Append(@, drawnCard),
                !.message = <<"you drew", drawnCard.rank, getSuitSymbol(drawnCard.suit)>>,
                !.status = IF canPlayCard(drawnCard, gameState.currentSuit, gameState.currentRank)
                           THEN "player_turn" ELSE "ai_turn"]
        /\ aiTimer' = RunEffect(g, gameState', timer)
        /\ lastOp' = [op |-> "drawCard", outcome |-> "drew", held |-> TRUE]
        /\ UNCHANGED <<showSuitSelector, pendingWildCard>>

\* the handler of the current render
handleDrawCard == handleDrawCardFrom(gameState, aiTimer)

\* variant: the committed wild card leaves its own rank active
CommittedRank_KeepsEight == WildRank

\* currentRank: null
CommittedRank == NoRank

handleSuitSelect(suit) ==
    IF pendingWildCard = NoCard THEN
        /\ lastOp' = [op |-> "chooseSuit", outcome |-> "ignored", held |-> TRUE]
        /\ UNCHANGED <<gameState, showSuitSelector, pendingWildCard, history, aiTimer>>
    ELSE
        LET newPlayerHand == FilterOut(gameState.playerHand, pendingWildCard) IN
        /\ gameState' = [gameState EXCEPT
                !.playerHand = newPlayerHand,
                !.discardPile = <<pendingWildCard>> \o @,
                !.currentSuit = suit,
                !.currentRank = CommittedRank,
                !.status = IF Len(newPlayerHand) = 0 THEN "game_over" ELSE "ai_turn",
                !.winner = IF Len(newPlayerHand) = 0 THEN "player" ELSE NoWinner,
                !.message = <<"you played 8, suit is", suit>>]
        /\ showSuitSelector' = FALSE
        /\ pendingWildCard' = NoCard
        /\ aiTimer' = RunEffect(gameState, gameState', aiTimer)
        /\ lastOp' = [op |-> "chooseSuit", held |-> TRUE,
                      outcome |-> IF gameState.status = "suit_selection"
                                  THEN "committed" ELSE "unasked"]
        /\ UNCHANGED history

\* variant: undo restores the snapshot but leaves the pending wild card selected
handleUndo_KeepsPending ==
    IF Len(history) = 0 THEN
        /\ lastOp' = [op |-> "undo", outcome |-> "ignored", held |-> TRUE]
        /\ UNCHANGED <<gameState, showSuitSelector, pendingWildCard, history, aiTimer>>
    ELSE
        /\ gameState' = history[Len(history)]
        /\ history' = DropLast(history)
        /\ aiTimer' = RunEffect(gameState, gameState', aiTimer)
        /\ lastOp' = [op |-> "undo", outcome |-> "restored", held |-> TRUE]
        /\ UNCHANGED <<showSuitSelector, pendingWildCard>>

handleUndo ==
    IF Len(history) = 0 THEN
        /\ lastOp' = [op |-> "undo", outcome |-> "ignored", held |-> TRUE]
        /\ UNCHANGED <<gameState, showSuitSelector, pendingWildCard, history, aiTimer>>
    ELSE
        LET lastState == history[Len(history)] IN
        /\ gameState' = lastState
        /\ history' = DropLast(history)
        /\ pendingWildCard' = NoCard
        /\ showSuitSelector' = FALSE
        /\ aiTimer' = RunEffect(gameState, gameState', aiTimer)
        /\ lastOp' = [op |-> "undo", outcome |-> "restored", held |-> TRUE]

\* ------------------------------------------------------------ AI logic
\* variant: only a wild card or a card of the active suit counts as playable
playableCards_IgnoresRank(g) ==
    SelectSeq(g.aiHand, LAMBDA c : c.rank = WildRank \/ c.suit = g.currentSuit)

playableCards(g) ==
    SelectSeq(g.aiHand, LAMBDA c : canPlayCard(c, g.currentSuit, g.currentRank))

\* variant: the first playable card is played, wild or not
cardToPlay_FirstPlayable(g) == playableCards(g)[1]

\* playableCards.find(c => c.rank !== '8') || playableCards[0]
cardToPlay(g) ==
    LET nonEights == SelectSeq(playableCards(g), LAMBDA c : c.rank # WildRank) IN
    IF Len(nonEights) > 0 THEN nonEights[1] ELSE playableCards(g)[1]

suitCounts(g, card) ==
    [s \in Range(SUITS) |-> Cardinality({i \in 1..Len(g.aiHand) :
                                            g.aiHand[i] # card /\ g.aiHand[i].suit = s})]

\* variant: on equal counts the suit met first is kept
RECURSIVE reduceSuits_FirstWins(_, _, _)
reduceSuits_FirstWins(counts, a, i) ==
    IF i > Len(SUITS) THEN a
    ELSE reduceSuits_FirstWins(counts, IF counts[a] >= counts[SUITS[i]] THEN a ELSE SUITS[i],
                               i + 1)

\* Object.keys(suitCounts).reduce((a, b) => suitCounts[a] > suitCounts[b] ? a : b)
RECURSIVE reduceSuits(_, _, _)
reduceSuits(counts, a, i) ==
    IF i > Len(SUITS) THEN a
    ELSE reduceSuits(counts, IF counts[a] > counts[SUITS[i]] THEN a ELSE SUITS[i], i + 1)

bestSuit(g, card) == reduceSuits(suitCounts(g, card), SUITS[1], 2)

\* variant: the opponent hands the turn over after every draw
StatusAfterOpponentDraw_AlwaysPasses(canPlayDrawn) == "player_turn"

\* status: canPlayDrawn ? 'ai_turn' : 'player_turn'
StatusAfterOpponentDraw(canPlayDrawn) == IF canPlayDrawn THEN "ai_turn" ELSE "player_turn"

\* The setTimeout callback: g is the render snapshot the effect closed over.
aiTimerFires ==
    /\ aiTimer # <<>>
    /\ LET g == aiTimer[1] IN
       IF Len(playableCards(g)) > 0 THEN
           LET card == cardToPlay(g)
               r == executeMove("ai", card,
                                IF card.rank = WildRank THEN bestSuit(g, card) ELSE NoSuit,
                                g, gameState, history)
           IN
           /\ history' = r.history
           /\ gameState' = r.gameState
           /\ lastOp' = [op |-> "aiTimer", outcome |-> "played", held |-> TRUE]
       ELSE IF Len(g.deck) > 0 THEN
           LET newDeck == DropLast(g.deck)
               drawnCard == Last(g.deck)
               canPlayDrawn == canPlayCard(drawnCard, g.currentSuit, g.currentRank)
           IN
           /\ gameState' = [gameState EXCEPT
                   !.deck = newDeck,
                   !.aiHand = Append(@, drawnCard),
                   !.message = <<"AI drew a card">>,
                   !.status = StatusAfterOpponentDraw(canPlayDrawn)]
           /\ lastOp' = [op |-> "aiTimer", outcome |-> "drew", held |-> TRUE]
           /\ UNCHANGED history
       ELSE
           /\ gameState' = [gameState EXCEPT
                   !.status = "player_turn",
                   !.message = <<"AI cannot play and draw pile empty, turn skipped">>]
           /\ lastOp' = [op |-> "aiTimer", outcome |-> "forfeit", held |-> TRUE]
           /\ UNCHANGED history
    /\ aiTimer' = RunEffect(gameState, gameState', <<>>)
    /\ UNCHANGED <<showSuitSelector, pendingWildCard>>

\* ------------------------------------------------------------ specification
Seeds == 0..(NumSeeds - 1)

StartGame == \E seed \in Seeds : initGame(seed)
\* The human makes no further recorded move once n snapshots are on the undo stack; a
\* click that records nothing (wrong phase, empty draw pile) stays possible.
PlayCardUpTo(n) ==
    /\ Len(history) < n \/ gameState.status # "player_turn"
    /\ \E card \in Range(gameState.playerHand) : handlePlayCard(card)
DrawCardUpTo(n) ==
    /\ Len(history) < n \/ gameState.status # "player_turn" \/ Len(gameState.deck) = 0
    /\ handleDrawCard

PlayCard == PlayCardUpTo(MaxMoves)
DrawCard == DrawCardUpTo(MaxMoves)
ChooseSuit == \E suit \in Range(SUITS) : handleSuitSelect(suit)
Undo == handleUndo
OpponentMove == aiTimerFires

Next ==
    \/ StartGame /\ UNCHANGED <<trip, ruleCall, aiSteps, lastDeal, undone, rendered>>
    \/ PlayCard /\ UNCHANGED <<trip, ruleCall, aiSteps, lastDeal, undone, rendered>>
    \/ DrawCard /\ UNCHANGED <<trip, ruleCall, aiSteps, lastDeal, undone, rendered>>
    \/ ChooseSuit /\ UNCHANGED <<trip, ruleCall, aiSteps, lastDeal, undone, rendered>>
    \/ Undo /\ UNCHANGED <<trip, ruleCall, aiSteps, lastDeal, undone, rendered>>
    \/ OpponentMove /\ UNCHANGED <<trip, ruleCall, aiSteps, lastDeal, undone, rendered>>

Spec == Init /\ [][Next]_vars

\* ---- the same program, with playCard also called on cards the human does not hold
\* (clicked as the first move of a game, or at any time out of turn)
PlayUnheldCard ==
    /\ Len(history) = 0 \/ gameState.status # "player_turn"
    /\ \E card \in Cards \ Range(gameState.playerHand) : handlePlayCard(card)

NextAnyCard ==
    \/ StartGame /\ UNCHANGED <<trip, ruleCall, aiSteps, lastDeal, undone, rendered>>
    \/ PlayCardUpTo(MaxMovesAnyCard) /\ UNCHANGED <<trip, ruleCall, aiSteps, lastDeal, undone, rendered>>
    \/ PlayUnheldCard /\ UNCHANGED <<trip, ruleCall, aiSteps, lastDeal, undone, rendered>>
    \/ DrawCardUpTo(MaxMovesAnyCard) /\ UNCHANGED <<trip, ruleCall, aiSteps, lastDeal, undone, rendered>>
    \/ ChooseSuit /\ UNCHANGED <<trip, ruleCall, aiSteps, lastDeal, undone, rendered>>
    \/ Undo /\ UNCHANGED <<trip, ruleCall, aiSteps, lastDeal, undone, rendered>>
    \/ OpponentMove /\ UNCHANGED <<trip, ruleCall, aiSteps, lastDeal, undone, rendered>>

SpecAnyCard == Init /\ [][NextAnyCard]_vars

\* ---- the same program, observed for undo round trips: a trip starts at a state with
\* empty history, counts the turn steps taken from it and then the undos applied.
TurnStep(o) ==
    \/ o.op = "playCard" /\ o.outcome \in {"played", "wild"}
    \/ o.op = "drawCard" /\ o.outcome \in {"drew", "forfeit"}
    \/ o.op = "aiTimer"

TrackTrip ==
    trip' =
        IF TurnStep(lastOp') THEN
            IF trip.fwd >= 1 /\ trip.back = 0
            THEN IF trip.fwd < HistoryLimit THEN [trip EXCEPT !.fwd = @ + 1] ELSE NoTrip
            ELSE IF Len(history) = 0
                 THEN [origin |-> gameState, fwd |-> 1, back |-> 0]
                 ELSE NoTrip
        ELSE IF lastOp'.op = "undo" THEN
            IF trip.fwd >= 1 /\ trip.back < trip.fwd
            THEN [trip EXCEPT !.back = @ + 1] ELSE NoTrip
        ELSE IF /\ lastOp'.op = "chooseSuit" /\ lastOp'.outcome = "committed"
                /\ gameState.status = "suit_selection"
            THEN trip   \* the commit half of the wild play already counted
        ELSE IF gameState' = gameState /\ history' = history THEN trip
        ELSE NoTrip

NextRoundTrip ==
    \/ StartGame /\ TrackTrip /\ UNCHANGED <<ruleCall, aiSteps, lastDeal, undone, rendered>>
    \/ PlayCard /\ TrackTrip /\ UNCHANGED <<ruleCall, aiSteps, lastDeal, undone, rendered>>
    \/ DrawCard /\ TrackTrip /\ UNCHANGED <<ruleCall, aiSteps, lastDeal, undone, rendered>>
    \/ ChooseSuit /\ TrackTrip /\ UNCHANGED <<ruleCall, aiSteps, lastDeal, undone, rendered>>
    \/ Undo /\ TrackTrip /\ UNCHANGED <<ruleCall, aiSteps, lastDeal, undone, rendered>>
    \/ OpponentMove /\ TrackTrip /\ UNCHANGED <<ruleCall, aiSteps, lastDeal, undone, rendered>>

SpecRoundTrip == Init /\ [][NextRoundTrip]_vars

\* ---- the program with the whole 52-card deck and hands of 8, driven by a human who
\* only draws, undoes and restarts: the games that run long enough to fill the history.
FullSeeds == 0..(NumFullSeeds - 1)

StartFullGame == \E seed \in FullSeeds : initGameWith(createFullDeck(seed), FullHandSize)

NextLongGame ==
    \/ StartFullGame /\ UNCHANGED <<trip, ruleCall, aiSteps, lastDeal, undone, rendered>>
    \/ handleDrawCard /\ UNCHANGED <<trip, ruleCall, aiSteps, lastDeal, undone, rendered>>
    \/ Undo /\ UNCHANGED <<trip, ruleCall, aiSteps, lastDeal, undone, rendered>>
    \/ OpponentMove /\ UNCHANGED <<trip, ruleCall, aiSteps, lastDeal, undone, rendered>>

SpecLongGame == Init /\ [][NextLongGame]_vars

\* ---- the deal alone, at the real size, over more orderings than the seeds give: the
\* shuffle can return any ordering of the deck, so every cut of a shuffled deck and the
\* ordering that puts all the wild cards right behind the two hands are dealt too.
Rotate(d, k) == [i \in 1..Len(d) |-> d[((i - 1 + k) % Len(d)) + 1]]

WildsBehindHands(d, handSize) ==
    LET wilds == SelectSeq(d, LAMBDA c : c.rank = WildRank)
        others == SelectSeq(d, LAMBDA c : c.rank # WildRank)
    IN SubSeq(others, 1, 2 * handSize) \o wilds \o SubSeq(others, 2 * handSize + 1, Len(others))

Orderings ==
    {Rotate(createFullDeck(seed), k) : seed \in FullSeeds, k \in 0..(Len(FullOrderedDeck) - 1)}
    \cup {WildsBehindHands(createFullDeck(seed), FullHandSize) : seed \in FullSeeds}

\* variant: one card fewer is dealt to each hand
DealAnyOrdering_ShortHands == \E o \in Orderings : initGameWith(o, FullHandSize - 1)

DealAnyOrdering == \E o \in Orderings : initGameWith(o, FullHandSize)

NextDeal == DealAnyOrdering /\ UNCHANGED <<trip, ruleCall, aiSteps, lastDeal, undone, rendered>>

SpecDeal == Init /\ [][NextDeal]_vars

\* ---- the rule evaluator alone: canPlayCard called on every card of the deck against
\* every active suit and every active rank or null.
FullCards == Range(FullOrderedDeck)

EvaluateRule ==
    /\ \E card \in FullCards, suit \in Range(SUITS), rank \in Range(RANKS) \cup {NoRank} :
          ruleCall' = [card |-> card, currentSuit |-> suit, currentRank |-> rank,
                       result |-> canPlayCard(card, suit, rank)]
    /\ UNCHANGED <<gameState, showSuitSelector, pendingWildCard, history, aiTimer, lastOp, trip,
                   aiSteps, lastDeal, undone, rendered>>

NextRule == EvaluateRule

SpecRule == Init /\ [][NextRule]_vars

\* ---- the program with a delay that always elapses (the pending timeout fires unless
\* it is cleared) and a human who neither undoes nor restarts during the opponent turn;
\* the opponent steps of each opponent turn are counted.
TrackSteps ==
    aiSteps' =
        IF gameState'.status # "ai_turn" THEN 0
        ELSE IF lastOp'.op = "aiTimer" THEN aiSteps + 1
        ELSE IF gameState.status = "ai_turn" THEN aiSteps
        ELSE 0

Uninterrupted == gameState.status # "ai_turn"

OpponentStep == OpponentMove /\ TrackSteps /\ UNCHANGED <<trip, ruleCall, lastDeal, undone, rendered>>

NextOpponentTurn ==
    \/ Uninterrupted /\ StartGame /\ TrackSteps /\ UNCHANGED <<trip, ruleCall, lastDeal, undone, rendered>>
    \/ PlayCardUpTo(MaxMovesFair) /\ TrackSteps /\ UNCHANGED <<trip, ruleCall, lastDeal, undone, rendered>>
    \/ DrawCardUpTo(MaxMovesFair) /\ TrackSteps /\ UNCHANGED <<trip, ruleCall, lastDeal, undone, rendered>>
    \/ ChooseSuit /\ TrackSteps /\ UNCHANGED <<trip, ruleCall, lastDeal, undone, rendered>>
    \/ Uninterrupted /\ Undo /\ TrackSteps /\ UNCHANGED <<trip, ruleCall, lastDeal, undone, rendered>>
    \/ OpponentStep

SpecOpponentTurn == Init /\ [][NextOpponentTurn]_vars /\ WF_vars(OpponentStep)

\* ---- the program with the state of the last deal remembered
TrackLineage ==
    lastDeal' =
        IF lastOp'.op = "initGame" /\ lastOp'.outcome = "dealt" THEN gameState'
        ELSE lastDeal

NextLineage ==
    \/ StartGame /\ TrackLineage /\ UNCHANGED <<trip, ruleCall, aiSteps, undone, rendered>>
    \/ PlayCard /\ TrackLineage /\ UNCHANGED <<trip, ruleCall, aiSteps, undone, rendered>>
    \/ DrawCard /\ TrackLineage /\ UNCHANGED <<trip, ruleCall, aiSteps, undone, rendered>>
    \/ ChooseSuit /\ TrackLineage /\ UNCHANGED <<trip, ruleCall, aiSteps, undone, rendered>>
    \/ Undo /\ TrackLineage /\ UNCHANGED <<trip, ruleCall, aiSteps, undone, rendered>>
    \/ OpponentMove /\ TrackLineage /\ UNCHANGED <<trip, ruleCall, aiSteps, undone, rendered>>

SpecLineage == Init /\ [][NextLineage]_vars

\* ---- games that run into a stalemate: a deck of two suits and the five ranks from the
\* wild rank on, dealt in an order from which the draw pile runs out with no legal card
\* in either hand, and in the same order with a wild card moved into the human hand.
\* The human answers a suit dialog that is open in a stalemate or in awaiting-suit-choice.
Card(rank, suit) == [suit |-> suit, rank |-> rank]

StalemateOrdering ==
    << Card("Q", "diamonds"), Card("9", "diamonds"), Card("9", "hearts"), Card("J", "hearts"),
       Card("10", "diamonds"), Card("8", "hearts"), Card("10", "hearts"), Card("J", "diamonds"),
       Card("8", "diamonds"), Card("Q", "hearts") >>

StalemateDeals == {StalemateOrdering, SwapAt(StalemateOrdering, 1, 6)}

StartStalemateGame == \E deck0 \in StalemateDeals : initGameWith(deck0, INITIAL_HAND_SIZE)

NoLegalCard(hand) ==
    \A i \in 1..Len(hand) : ~canPlayCard(hand[i], gameState.currentSuit, gameState.currentRank)

\* a game under way with an empty draw pile and no legal card in either hand
Stalemate ==
    /\ gameState.status \in {"player_turn", "ai_turn"}
    /\ Len(gameState.deck) = 0
    /\ NoLegalCard(gameState.playerHand)
    /\ NoLegalCard(gameState.aiHand)

DialogAnswered ==
    /\ gameState.status = "suit_selection" \/ Stalemate
    /\ ChooseSuit

NextStalemate ==
    \/ StartStalemateGame /\ UNCHANGED <<trip, ruleCall, aiSteps, lastDeal, undone, rendered>>
    \/ PlayCardUpTo(MaxMovesStalemate) /\ UNCHANGED <<trip, ruleCall, aiSteps, lastDeal, undone, rendered>>
    \/ DrawCardUpTo(MaxMovesStalemate) /\ UNCHANGED <<trip, ruleCall, aiSteps, lastDeal, undone, rendered>>
    \/ DialogAnswered /\ UNCHANGED <<trip, ruleCall, aiSteps, lastDeal, undone, rendered>>
    \/ OpponentMove /\ UNCHANGED <<trip, ruleCall, aiSteps, lastDeal, undone, rendered>>

SpecStalemate == Init /\ [][NextStalemate]_vars

\* ---- the program with the state replaced by an undo remembered for one step
TrackUndone ==
    undone' =
        IF lastOp'.op = "undo" /\ lastOp'.outcome = "restored" THEN <<gameState, lastOp>>
        ELSE IF lastOp'.op = "aiTimer" /\ Len(undone) = 2 THEN Append(undone, "replayed")
        ELSE <<>>

NextReplay ==
    \/ StartGame /\ TrackUndone /\ UNCHANGED <<trip, ruleCall, aiSteps, lastDeal, rendered>>
    \/ PlayCard /\ TrackUndone /\ UNCHANGED <<trip, ruleCall, aiSteps, lastDeal, rendered>>
    \/ DrawCard /\ TrackUndone /\ UNCHANGED <<trip, ruleCall, aiSteps, lastDeal, rendered>>
    \/ ChooseSuit /\ TrackUndone /\ UNCHANGED <<trip, ruleCall, aiSteps, lastDeal, rendered>>
    \/ Undo /\ TrackUndone /\ UNCHANGED <<trip, ruleCall, aiSteps, lastDeal, rendered>>
    \/ OpponentMove /\ TrackUndone /\ UNCHANGED <<trip, ruleCall, aiSteps, lastDeal, rendered>>

SpecReplay == Init /\ [][NextReplay]_vars

\* ---- the program with commands that run before the component has rendered again: a
\* play or a draw leaves the render behind the state, a second play or draw may follow
\* through the handlers of that render, and then the component renders.
FirstCommand ==
    /\ rendered = <<>>
    /\ PlayCardUpTo(MaxMovesBatched) \/ DrawCardUpTo(MaxMovesBatched)
    /\ rendered' = <<gameState, aiTimer>>

SecondCommand ==
    /\ rendered # <<>>
    /\ \/ \E card \in Range(rendered[1].playerHand) :
              handlePlayCardFrom(card, rendered[1], rendered[2])
       \/ handleDrawCardFrom(rendered[1], rendered[2])
    /\ rendered' = <<>>

Render ==
    /\ rendered # <<>>
    /\ rendered' = <<>>
    /\ UNCHANGED <<gameState, showSuitSelector, pendingWildCard, history, aiTimer, lastOp>>

Rendered == rendered = <<>>

NextBatched ==
    \/ Rendered /\ StartGame /\ UNCHANGED <<trip, ruleCall, aiSteps, lastDeal, undone, rendered>>
    \/ FirstCommand /\ UNCHANGED <<trip, ruleCall, aiSteps, lastDeal, undone>>
    \/ SecondCommand /\ UNCHANGED <<trip, ruleCall, aiSteps, lastDeal, undone>>
    \/ Render /\ UNCHANGED <<trip, ruleCall, aiSteps, lastDeal, undone>>
    \/ Rendered /\ ChooseSuit /\ UNCHANGED <<trip, ruleCall, aiSteps, lastDeal, undone, rendered>>
    \/ Rendered /\ Undo /\ UNCHANGED <<trip, ruleCall, aiSteps, lastDeal, undone, rendered>>
    \/ Rendered /\ OpponentMove /\ UNCHANGED <<trip, ruleCall, aiSteps, lastDeal, undone, rendered>>

SpecBatched == Init /\ [][NextBatched]_vars

\* ================================================================ claims
PostDeal == gameState.status # "waiting_to_start"

AllPiles(g) == g.deck \o g.playerHand \o g.aiHand \o g.discardPile
Occurrences(s, c) == Cardinality({i \in 1..Len(s) : s[i] = c})
Conserved(g) == \A c \in Cards : Occurrences(AllPiles(g), c) = 1

\* C1: from the first deal onward the draw pile, the two hands and the discard pile
\* together hold every card of the deck exactly once.
C1_CardConservation == PostDeal => Conserved(gameState)

\* C2: a pending opponent callback always holds the current state, and the current
\* phase is then the opponent's turn: it can never fire against a superseded snapshot.
C2_TimerSeesCurrentState ==
    aiTimer # <<>> => (aiTimer[1] = gameState /\ gameState.status = "ai_turn")

Status == gameState.status
InSuitSelection == Status = "suit_selection"

\* C3 (as claimed): in awaiting-suit-choice the last human action selected a wild card
\* that is in flight, neither in the human hand nor on the discard pile.
C3_PendingCardInFlight ==
    InSuitSelection =>
        /\ pendingWildCard.rank = WildRank
        /\ pendingWildCard \notin Range(gameState.playerHand)
        /\ pendingWildCard \notin Range(gameState.discardPile)

\* C3 (amended): in awaiting-suit-choice a wild card is recorded as pending and nothing
\* is in flight: the card is still in the human hand, and the state is the snapshot
\* recorded just before the selection with only the phase changed.
C3_PendingCardStaysInHand ==
    InSuitSelection =>
        /\ pendingWildCard.rank = WildRank
        /\ showSuitSelector
        /\ pendingWildCard \in Range(gameState.playerHand)
        /\ Len(history) > 0
        /\ gameState = [Last(history) EXCEPT !.status = "suit_selection"]
        /\ Last(history).status = "player_turn"

C3_Witness ==
    /\ InSuitSelection
    /\ lastOp = [op |-> "playCard", outcome |-> "wild", held |-> TRUE]
    /\ Len(gameState.playerHand) > 1

\* C4: from the first deal onward the phase is finished iff a winner is recorded iff one
\* of the hands is empty, and the empty hand is the winner's.
C4_FinishedIffWinnerIffEmptyHand ==
    PostDeal =>
        LET finished == Status = "game_over"
            won == gameState.winner # NoWinner
            emptyHand == Len(gameState.playerHand) = 0 \/ Len(gameState.aiHand) = 0
        IN /\ finished <=> won
           /\ finished <=> emptyHand
           /\ gameState.winner = "player" => Len(gameState.playerHand) = 0
           /\ gameState.winner = "ai" => Len(gameState.aiHand) = 0

\* C5: once the phase is finished, only a restart changes the game state.
C5_FinishedIsTerminal ==
    [][(Status = "game_over" /\ lastOp'.op # "initGame") => gameState' = gameState]_vars

Recorded(hist, g) == SliceLast(Append(hist, g), HistoryLimit)

\* C7: every human play, draw or forfeiting draw and every opponent play, draw or
\* forfeit appends exactly one history entry, the game state just before the action.
C7_EveryTurnStepRecorded ==
    [][((lastOp'.op = "playCard" /\ lastOp'.outcome = "played")
        \/ (lastOp'.op = "drawCard" /\ lastOp'.outcome \in {"drew", "forfeit"})
        \/ (lastOp'.op = "aiTimer"))
       => history' = Recorded(history, gameState)]_vars

Board(g) == <<g.deck, g.playerHand, g.aiHand, g.discardPile,
              g.currentSuit, g.currentRank, g.status, g.winner>>

\* C8: chooseSuit outside awaiting-suit-choice leaves hands, piles, active suit and rank,
\* phase and winner unchanged.
C8_ChooseSuitOnlyWhenAwaited ==
    [][(lastOp'.op = "chooseSuit" /\ ~InSuitSelection) => Board(gameState') = Board(gameState)]_vars

\* C6: from a post-deal state with empty history, n <= 10 turn steps followed by n undos
\* give back the starting state, field for field.
C6_UndoRoundTrip ==
    (trip.fwd >= 1 /\ trip.back = trip.fwd) => gameState = trip.origin

Piles(g) == <<g.deck, g.playerHand, g.aiHand, g.discardPile>>

\* C9: playCard during the human turn with a card that is not in the human hand changes
\* no hand and no pile, and keeps the cards conserved.
C9_UnheldCardIsNoOp ==
    [][(lastOp'.op = "playCard" /\ ~lastOp'.held /\ Status = "player_turn")
       => /\ Piles(gameState') = Piles(gameState)
          /\ Conserved(gameState) => Conserved(gameState')]_vars

\* C10: playCard and drawCard outside the human turn change nothing: game state with its
\* message, history and pending wild card all stay as they are.
C10_OutOfTurnIsNoOp ==
    [][(lastOp'.op \in {"playCard", "drawCard"} /\ Status # "player_turn")
       => /\ gameState' = gameState
          /\ history' = history
          /\ pendingWildCard' = pendingWildCard
          /\ showSuitSelector' = showSuitSelector]_vars

C10_Witness ==
    /\ lastOp.op = "playCard"
    /\ lastOp.outcome = "ignored"
    /\ Status = "ai_turn"
    /\ Len(gameState.playerHand) > 0

\* C11: playCard during the human turn with a card that is not a legal play against the
\* active suit and rank changes only the message: hands, piles, active suit and rank,
\* phase, winner, history and pending wild card stay as they are.
C11_IllegalCardOnlySetsMessage ==
    [][\A card \in Cards :
          (/\ Status = "player_turn"
           /\ ~canPlayCard(card, gameState.currentSuit, gameState.currentRank)
           /\ handlePlayCard(card))
          => /\ Board(gameState') = Board(gameState)
             /\ gameState'.status = "player_turn"
             /\ history' = history
             /\ pendingWildCard' = pendingWildCard
             /\ showSuitSelector' = showSuitSelector]_vars

C11_Witness ==
    /\ lastOp.op = "playCard"
    /\ lastOp.outcome = "rejected"
    /\ Status = "player_turn"
    /\ gameState.message = <<"cannot play this card">>
    /\ Len(history) > 0

\* the steps whose handler calls saveHistory
Recording ==
    \/ lastOp'.op = "playCard" /\ lastOp'.outcome \in {"played", "wild"}
    \/ lastOp'.op = "drawCard" /\ lastOp'.outcome = "drew"
    \/ lastOp'.op = "aiTimer" /\ lastOp'.outcome = "played"

\* C12: the history never holds more than 10 entries; a snapshot recorded into a full
\* history evicts the oldest entry, and the entries kept stay in their order, below the
\* new one, the state its handler saw.
C12_HistoryKeepsLastTen ==
    [][/\ Len(history') <= HistoryLimit
       /\ Recording =>
            /\ DropLast(history') = IF Len(history) = HistoryLimit THEN Tail(history) ELSE history
            /\ \/ Last(history') = gameState
               \/ lastOp'.op = "aiTimer" /\ Last(history') = aiTimer[1]]_vars

\* the opening snapshot of the game has been evicted from a full history
C12_Witness ==
    /\ Len(history) = HistoryLimit
    /\ lastOp.op \in {"drawCard", "aiTimer"}
    /\ Len(history[1].deck) < Len(FullOrderedDeck) - 2 * FullHandSize - 1

\* C13: a human wild-card play and its suit commit are one move. Selecting the wild card
\* records exactly one snapshot, the state before the selection, and changes only the
\* phase; the commit records nothing; an undo while the choice is pending or right after
\* the commit restores that snapshot (human turn, wild card in hand, discard pile without
\* it) and clears the pending selection.
C13_WildPlayIsOneMove ==
    [][/\ (lastOp'.op = "playCard" /\ lastOp'.outcome = "wild") =>
            /\ history' = Recorded(history, gameState)
            /\ gameState' = [gameState EXCEPT !.status = "suit_selection"]
       /\ (lastOp'.op = "chooseSuit" /\ InSuitSelection) => history' = history
       /\ (lastOp'.op = "undo" /\ InSuitSelection) =>
            /\ gameState' = [gameState EXCEPT !.status = "player_turn"]
            /\ pendingWildCard \in Range(gameState'.playerHand)
            /\ history' = DropLast(history)
            /\ pendingWildCard' = NoCard /\ ~showSuitSelector'
       /\ (lastOp'.op = "undo" /\ lastOp.op = "chooseSuit" /\ lastOp.outcome = "committed") =>
            /\ Len(history) > 0
            /\ gameState' = Last(history)
            /\ history' = DropLast(history)
            /\ gameState'.status = "player_turn"
            /\ gameState.discardPile = <<Head(gameState.discardPile)>> \o gameState'.discardPile
            /\ Head(gameState.discardPile) \in Range(gameState'.playerHand)
            /\ gameState.playerHand = FilterOut(gameState'.playerHand, Head(gameState.discardPile))
            /\ gameState'.deck = gameState.deck /\ gameState'.aiHand = gameState.aiHand
            /\ pendingWildCard' = NoCard /\ ~showSuitSelector'
      ]_vars

\* an undo has just taken back a committed wild card
C13_Witness ==
    /\ lastOp.op = "undo" /\ lastOp.outcome = "restored"
    /\ Status = "player_turn"
    /\ pendingWildCard = NoCard
    /\ \E c \in Range(gameState.playerHand) :
          /\ c.rank = WildRank
          /\ gameState.currentRank # NoRank
          /\ c \notin Range(gameState.discardPile)

HumanPlayed == lastOp'.op = "playCard" /\ lastOp'.outcome = "played"
HumanCommitted == lastOp'.op = "chooseSuit" /\ InSuitSelection
OpponentPlayed == lastOp'.op = "aiTimer" /\ lastOp'.outcome = "played"

PlayOutcome(handBefore, handAfter, who, nextStatus) ==
    /\ Len(handAfter) = Len(handBefore) - 1
    /\ IF Len(handAfter) = 0
       THEN gameState'.status = "game_over" /\ gameState'.winner = who
       ELSE gameState'.status = nextStatus /\ gameState'.winner = NoWinner

\* C14: a play (human non-wild play, human wild play committed by chooseSuit, opponent
\* play) takes one card from the acting hand; when that was its last card the phase is
\* finished and the winner is the acting participant, otherwise the turn passes to the
\* other participant and the winner stays null.
C14_LastCardWins ==
    [][/\ (HumanPlayed \/ HumanCommitted) =>
            PlayOutcome(gameState.playerHand, gameState'.playerHand, "player", "ai_turn")
       /\ OpponentPlayed =>
            PlayOutcome(gameState.aiHand, gameState'.aiHand, "ai", "player_turn")]_vars

C14_Witness ==
    /\ lastOp.op = "playCard" /\ lastOp.outcome = "played"
    /\ Len(gameState.playerHand) = 0
    /\ Status = "game_over"
    /\ gameState.winner = "player"

\* C15: a successful human play of a non-wild card during the human turn removes exactly
\* that card from the human hand, puts it at the head of the discard pile above the older
\* discards, makes its suit and rank the active ones, and leaves the draw pile and the
\* opponent hand as they are.
C15_NonWildPlayEffect ==
    [][\A card \in Cards :
          (/\ Status = "player_turn"
           /\ card \in Range(gameState.playerHand)
           /\ card.rank # WildRank
           /\ canPlayCard(card, gameState.currentSuit, gameState.currentRank)
           /\ handlePlayCard(card))
          => /\ gameState'.playerHand = FilterOut(gameState.playerHand, card)
             /\ Len(gameState'.playerHand) = Len(gameState.playerHand) - 1
             /\ gameState'.discardPile = <<card>> \o gameState.discardPile
             /\ gameState'.currentSuit = card.suit
             /\ gameState'.currentRank = card.rank
             /\ gameState'.deck = gameState.deck
             /\ gameState'.aiHand = gameState.aiHand]_vars

C15_Witness ==
    /\ lastOp.op = "playCard" /\ lastOp.outcome = "played"
    /\ Status = "ai_turn"
    /\ Len(gameState.discardPile) >= 2
    /\ Head(gameState.discardPile).rank # WildRank
    /\ gameState.currentRank = Head(gameState.discardPile).rank
    /\ gameState.currentSuit = Head(gameState.discardPile).suit

\* C16: chooseSuit(s) in awaiting-suit-choice moves the pending wild card from the human
\* hand to the head of the discard pile, makes s the active suit with no active rank,
\* clears the pending selection and leaves the draw pile and the opponent hand as they
\* are; the phase becomes the opponent's turn, or finished when the human hand is empty.
C16_SuitCommitEffect ==
    [][\A suit \in Range(SUITS) :
          (InSuitSelection /\ handleSuitSelect(suit))
          => /\ gameState'.discardPile = <<pendingWildCard>> \o gameState.discardPile
             /\ gameState'.playerHand = FilterOut(gameState.playerHand, pendingWildCard)
             /\ Len(gameState'.playerHand) = Len(gameState.playerHand) - 1
             /\ gameState'.currentSuit = suit
             /\ gameState'.currentRank = NoRank
             /\ pendingWildCard' = NoCard /\ ~showSuitSelector'
             /\ gameState'.deck = gameState.deck
             /\ gameState'.aiHand = gameState.aiHand
             /\ gameState'.status =
                    IF Len(gameState'.playerHand) = 0 THEN "game_over" ELSE "ai_turn"]_vars

C16_Witness ==
    /\ lastOp.op = "chooseSuit" /\ lastOp.outcome = "committed"
    /\ Status = "ai_turn"
    /\ Head(gameState.discardPile).rank = WildRank
    /\ gameState.currentRank = NoRank
    /\ gameState.currentSuit # Head(gameState.discardPile).suit
    /\ pendingWildCard = NoCard

\* C17: drawCard during the human turn with an empty draw pile forfeits the turn: the
\* phase becomes the opponent's turn while both hands, the discard pile, the (empty) draw
\* pile and the active suit and rank stay as they are.
C17_EmptyPileForfeits ==
    [][(/\ Status = "player_turn"
        /\ Len(gameState.deck) = 0
        /\ handleDrawCard)
       => /\ gameState'.status = "ai_turn"
          /\ Piles(gameState') = Piles(gameState)
          /\ Len(gameState'.deck) = 0
          /\ gameState'.currentSuit = gameState.currentSuit
          /\ gameState'.currentRank = gameState.currentRank
          /\ gameState'.winner = gameState.winner]_vars

C17_Witness ==
    /\ lastOp.op = "drawCard" /\ lastOp.outcome = "forfeit"
    /\ Status = "ai_turn"
    /\ Len(gameState.deck) = 0
    /\ Len(gameState.playerHand) > 0

\* what a human draw leaves alone, and how it hands the turn on, for the drawn card c
DrawFrame(c) ==
    /\ gameState'.aiHand = gameState.aiHand
    /\ gameState'.discardPile = gameState.discardPile
    /\ gameState'.currentSuit = gameState.currentSuit
    /\ gameState'.currentRank = gameState.currentRank
    /\ gameState'.status =
           IF canPlayCard(c, gameState.currentSuit, gameState.currentRank)
           THEN "player_turn" ELSE "ai_turn"

HumanDraws == Status = "player_turn" /\ Len(gameState.deck) > 0 /\ handleDrawCard

\* C18 (as claimed): drawCard during the human turn with a non-empty draw pile moves one
\* card into the human hand, the top card of the draw pile, top being the end of the
\* shuffled sequence the deal takes its cards from (the front); the opponent hand, the
\* discard pile and the active suit and rank stay, and the human keeps the turn iff the
\* drawn card is a legal play.
C18_DrawsTopOfPile ==
    [][HumanDraws =>
          /\ gameState'.playerHand = Append(gameState.playerHand, Head(gameState.deck))
          /\ gameState'.deck = Tail(gameState.deck)
          /\ DrawFrame(Head(gameState.deck))]_vars

\* C18 (amended): the card drawn is the last card of the draw-pile sequence, the end
\* opposite to the one the deal takes its cards from; it is appended to the human hand
\* and the rest of the draw pile keeps its order; the opponent hand, the discard pile
\* and the active suit and rank stay, and the human keeps the turn iff the drawn card is
\* a legal play.
C18_DrawsEndOfPile ==
    [][HumanDraws =>
          /\ gameState'.playerHand =
                Append(gameState.playerHand, gameState.deck[Len(gameState.deck)])
          /\ gameState'.deck = SubSeq(gameState.deck, 1, Len(gameState.deck) - 1)
          /\ DrawFrame(gameState.deck[Len(gameState.deck)])]_vars

\* the human has drawn from a pile of several cards and keeps the turn
C18_Witness ==
    /\ lastOp.op = "drawCard" /\ lastOp.outcome = "drew"
    /\ Status = "player_turn"
    /\ Len(gameState.deck) >= 1
    /\ canPlayCard(gameState.playerHand[Len(gameState.playerHand)],
                   gameState.currentSuit, gameState.currentRank)

\* C19: every deal, whatever the ordering of the shuffled deck, gives the human 8 cards,
\* the opponent 8 cards, the discard pile exactly 1 card and the draw pile 35 cards, in
\* the human's turn with no winner.
C19_DealSizes ==
    lastOp.op = "initGame" =>
        /\ lastOp.outcome = "dealt"
        /\ Len(gameState.playerHand) = 8
        /\ Len(gameState.aiHand) = 8
        /\ Len(gameState.discardPile) = 1
        /\ Len(gameState.deck) = 35
        /\ gameState.status = "player_turn"
        /\ gameState.winner = NoWinner

C19_Witness ==
    /\ lastOp.op = "initGame" /\ lastOp.outcome = "dealt"
    /\ Len(gameState.deck) = 35
    /\ Len(gameState.playerHand) = 8
    /\ gameState.deck[1].rank = WildRank

\* the cards left of ordering o once the two hands are dealt
AfterHands(o) == SubSeq(o, 2 * FullHandSize + 1, Len(o))

\* C20: every deal, whatever the ordering of the shuffled deck, ends its scan with an
\* opening card that is not wild: the first non-wild card, from the front, of the 36
\* cards left after the hands; the active suit and rank are that card's, and the wild
\* cards the scan went past stay in the draw pile, which is the 36 cards without the
\* opening card, in order.
C20_OpeningCardNotWild ==
    [][\A o \in Orderings :
          initGameWith(o, FullHandSize) =>
            /\ lastOp'.outcome = "dealt"
            /\ Len(AfterHands(o)) = 36
            /\ \E i \in 1..Len(AfterHands(o)) :
                  /\ AfterHands(o)[i].rank # WildRank
                  /\ \A j \in 1..(i - 1) : AfterHands(o)[j].rank = WildRank
                  /\ gameState'.discardPile = <<AfterHands(o)[i]>>
                  /\ gameState'.currentSuit = AfterHands(o)[i].suit
                  /\ gameState'.currentRank = AfterHands(o)[i].rank
                  /\ gameState'.deck = SubSeq(AfterHands(o), 1, i - 1)
                                         \o SubSeq(AfterHands(o), i + 1, Len(AfterHands(o)))
                  /\ \A j \in 1..(i - 1) : gameState'.deck[j] = AfterHands(o)[j]]_vars

\* a deal whose scan went past all four wild cards
C20_Witness ==
    /\ lastOp.op = "initGame" /\ lastOp.outcome = "dealt"
    /\ \A j \in 1..4 : gameState.deck[j].rank = WildRank
    /\ Head(gameState.discardPile).rank # WildRank

\* C21: canPlayCard answers for every card, active suit and active rank (or null): true
\* for every wild card whatever the arguments; for a non-wild card true iff its suit is
\* the active suit or its rank is the active rank, so with a null active rank only the
\* suit can match.
C21_RuleMatchesReference ==
    ruleCall # NoCall =>
        /\ ruleCall.result \in BOOLEAN
        /\ ruleCall.card.rank = WildRank => ruleCall.result
        /\ ruleCall.card.rank # WildRank =>
              (ruleCall.result <=> (\/ ruleCall.card.suit = ruleCall.currentSuit
                                    \/ ruleCall.card.rank = ruleCall.currentRank))
        /\ (ruleCall.card.rank # WildRank /\ ruleCall.currentRank = NoRank) =>
              (ruleCall.result <=> ruleCall.card.suit = ruleCall.currentSuit)

\* a non-wild card accepted on its rank alone
C21_Witness ==
    /\ ruleCall.card.rank # WildRank
    /\ ruleCall.card.rank = ruleCall.currentRank
    /\ ruleCall.card.suit # ruleCall.currentSuit
    /\ ruleCall.result

\* the cards of the draw pile after the step that were not in it before
EnteredDeck == Range(gameState'.deck) \ Range(gameState.deck)

\* C22 (as claimed): between two deals no command and no opponent step makes the draw
\* pile larger, and no card moves from the discard pile into the draw pile.
C22_DrawPileNeverGrows ==
    [][lastOp'.op # "initGame" =>
          /\ Len(gameState'.deck) <= Len(gameState.deck)
          /\ EnteredDeck \cap Range(gameState.discardPile) = {}]_vars

\* C22 (amended): play, draw, chooseSuit and the opponent's steps leave the draw pile as
\* it is or take its last card, so no card enters it; an undo puts back the draw pile of
\* the snapshot it restores, which is the current one or a longer one.
C22_DrawPileGrowsOnlyByUndo ==
    [][lastOp'.op # "initGame" =>
          /\ lastOp'.op # "undo" =>
                /\ \/ gameState'.deck = gameState.deck
                   \/ gameState'.deck = SubSeq(gameState.deck, 1, Len(gameState.deck) - 1)
                /\ EnteredDeck = {}
          /\ (lastOp'.op = "undo" /\ Len(history) > 0) =>
                /\ gameState'.deck = history[Len(history)].deck
                /\ Len(gameState'.deck) >= Len(gameState.deck)
                /\ SubSeq(gameState'.deck, 1, Len(gameState.deck)) = gameState.deck]_vars

\* an undo has put the first card drawn back on the full draw pile
C22_Witness ==
    /\ lastOp.op = "undo" /\ lastOp.outcome = "restored"
    /\ Len(history) = 0
    /\ Len(gameState.deck) = Len(OrderedDeck) - 2 * INITIAL_HAND_SIZE - 1
    /\ Status = "player_turn"

PhaseEdges ==
    {<<"player_turn", "ai_turn">>, <<"player_turn", "suit_selection">>,
     <<"player_turn", "game_over">>, <<"suit_selection", "ai_turn">>,
     <<"suit_selection", "game_over">>, <<"ai_turn", "player_turn">>,
     <<"ai_turn", "game_over">>}

\* C23: under play, draw, chooseSuit and opponent steps the phase stays or changes along
\* one of the seven edges of PhaseEdges; a deal ends in the human turn, and only a deal
\* leaves awaiting-start.
C23_PhaseEdges ==
    [][/\ lastOp'.op \in {"playCard", "drawCard", "chooseSuit", "aiTimer"} =>
            \/ gameState'.status = gameState.status
            \/ <<gameState.status, gameState'.status>> \in PhaseEdges
       /\ (lastOp'.op = "initGame" /\ lastOp'.outcome = "dealt") =>
            gameState'.status = "player_turn"
       /\ (Status = "waiting_to_start" /\ gameState'.status # "waiting_to_start") =>
            lastOp'.op = "initGame"]_vars

\* positions of the opponent hand that hold a legal card, and those that hold a legal
\* card that is not wild
LegalAt == {i \in 1..Len(gameState.aiHand) :
              canPlayCard(gameState.aiHand[i], gameState.currentSuit, gameState.currentRank)}
LegalNonWildAt == {i \in LegalAt : gameState.aiHand[i].rank # WildRank}
FirstOf(S) == CHOOSE i \in S : \A j \in S : i <= j
PolicyChoice ==
    gameState.aiHand[IF LegalNonWildAt # {} THEN FirstOf(LegalNonWildAt) ELSE FirstOf(LegalAt)]

\* C24: when the opponent acts with a legal card in hand it plays the first legal
\* non-wild card in hand order, or the first wild card when all its legal cards are
\* wild; the card played leaves its hand for the head of the discard pile; with no legal
\* card in hand it plays nothing (it draws or forfeits).
C24_OpponentSelection ==
    [][lastOp'.op = "aiTimer" =>
          IF LegalAt = {}
          THEN /\ gameState'.discardPile = gameState.discardPile
               /\ lastOp'.outcome \in {"drew", "forfeit"}
          ELSE /\ gameState'.discardPile = <<PolicyChoice>> \o gameState.discardPile
               /\ gameState'.aiHand = FilterOut(gameState.aiHand, PolicyChoice)
               /\ Len(gameState'.aiHand) = Len(gameState.aiHand) - 1
               /\ lastOp'.outcome = "played"]_vars

\* the opponent has played a non-wild card and kept a wild card
C24_Witness ==
    /\ lastOp.op = "aiTimer" /\ lastOp.outcome = "played"
    /\ Head(gameState.discardPile).rank # WildRank
    /\ \E c \in Range(gameState.aiHand) : c.rank = WildRank

SuitIndex(suit) == CHOOSE i \in 1..Len(SUITS) : SUITS[i] = suit
CountOfSuit(hand, suit) == Cardinality({i \in 1..Len(hand) : hand[i].suit = suit})

\* C25: when the opponent plays a wild card the active rank becomes null and the active
\* suit is one the opponent holds most of among its remaining cards, the played card
\* left out; among suits of equal highest count the one latest in the order hearts,
\* diamonds, clubs, spades is taken, so the suit is a function of the hand, also when no
\* card remains.
C25_OpponentSuitChoice ==
    [][(/\ lastOp'.op = "aiTimer" /\ lastOp'.outcome = "played"
        /\ Head(gameState'.discardPile).rank = WildRank)
       => LET remaining == FilterOut(gameState.aiHand, Head(gameState'.discardPile))
              chosen == gameState'.currentSuit
          IN /\ gameState'.currentRank = NoRank
             /\ chosen \in Range(SUITS)
             /\ \A s \in Range(SUITS) :
                   /\ CountOfSuit(remaining, s) <= CountOfSuit(remaining, chosen)
                   /\ CountOfSuit(remaining, s) = CountOfSuit(remaining, chosen)
                        => SuitIndex(s) <= SuitIndex(chosen)]_vars

\* the opponent has played a wild card and named a suit it holds, on a tie
C25_Witness ==
    /\ lastOp.op = "aiTimer" /\ lastOp.outcome = "played"
    /\ Head(gameState.discardPile).rank = WildRank
    /\ gameState.currentRank = NoRank
    /\ CountOfSuit(gameState.aiHand, gameState.currentSuit) >= 1
    /\ \E s \in Range(SUITS) \ {gameState.currentSuit} :
          CountOfSuit(gameState.aiHand, s) = CountOfSuit(gameState.aiHand, gameState.currentSuit)

\* the opponent acts with no legal card in hand
OpponentMustDraw == lastOp'.op = "aiTimer" /\ LegalAt = {}

\* what an opponent draw of card c leaves alone, and how it hands the turn on
OpponentDrawFrame(c) ==
    /\ gameState'.playerHand = gameState.playerHand
    /\ gameState'.discardPile = gameState.discardPile
    /\ gameState'.status =
           IF canPlayCard(c, gameState.currentSuit, gameState.currentRank)
           THEN "ai_turn" ELSE "player_turn"

OpponentForfeits ==
    /\ gameState'.status = "player_turn"
    /\ Piles(gameState') = Piles(gameState)

\* C26 (as claimed): an opponent with no legal card and a non-empty draw pile takes the
\* top card of the draw pile, top being the end the deal takes its cards from (the
\* front), and keeps the turn iff that card is legal; on an empty draw pile the turn
\* passes to the human and no hand or pile changes.
C26_OpponentDrawsTop ==
    [][OpponentMustDraw =>
          IF Len(gameState.deck) > 0
          THEN /\ gameState'.aiHand = Append(gameState.aiHand, Head(gameState.deck))
               /\ gameState'.deck = Tail(gameState.deck)
               /\ OpponentDrawFrame(Head(gameState.deck))
          ELSE OpponentForfeits]_vars

\* C26 (amended): the card the opponent draws is the last card of the draw-pile
\* sequence, the end opposite to the one the deal takes its cards from; the rest is as
\* claimed.
C26_OpponentDrawsEnd ==
    [][OpponentMustDraw =>
          IF Len(gameState.deck) > 0
          THEN /\ gameState'.aiHand =
                     Append(gameState.aiHand, gameState.deck[Len(gameState.deck)])
               /\ gameState'.deck = SubSeq(gameState.deck, 1, Len(gameState.deck) - 1)
               /\ OpponentDrawFrame(gameState.deck[Len(gameState.deck)])
          ELSE OpponentForfeits]_vars

\* the opponent has drawn a legal card from a pile of several and keeps the turn
C26_Witness ==
    /\ lastOp.op = "aiTimer" /\ lastOp.outcome = "drew"
    /\ Status = "ai_turn"
    /\ Len(gameState.deck) >= 1
    /\ aiTimer # <<>>

\* C27: from the first deal onward the active rank is null iff the head of the discard
\* pile is a wild card, and under a non-wild head the active rank and suit are the
\* head's.
C27_ActiveTracksDiscardHead ==
    PostDeal =>
        /\ Len(gameState.discardPile) > 0
        /\ gameState.currentRank = NoRank <=> Head(gameState.discardPile).rank = WildRank
        /\ Head(gameState.discardPile).rank # WildRank =>
              /\ gameState.currentRank = Head(gameState.discardPile).rank
              /\ gameState.currentSuit = Head(gameState.discardPile).suit

\* a non-wild card lies on a wild card whose named suit it followed
C27_Witness ==
    /\ Len(gameState.discardPile) >= 3
    /\ Head(gameState.discardPile).rank # WildRank
    /\ gameState.discardPile[2].rank = WildRank
    /\ gameState.currentRank = Head(gameState.discardPile).rank
    /\ gameState.currentSuit = Head(gameState.discardPile).suit

Resolved == Status \in {"player_turn", "game_over"}

\* C28: when the pending timeout always fires and the human neither undoes nor restarts,
\* an opponent turn ends in the human turn or in finished, and it does so within two
\* opponent steps: after one step the phase is the opponent turn only when a legal card
\* was drawn, and the second step plays.
C28_OpponentTurnResolves ==
    /\ (Status = "ai_turn") ~> Resolved
    /\ [](aiSteps <= 1)

\* the eventual part of C28 alone
C28_EventuallyResolves == (Status = "ai_turn") ~> Resolved

\* C29: a wild card is pending exactly when the phase is awaiting-suit-choice, the
\* pending card is a wild-rank card of the human hand, and a restart or an undo that
\* took effect leaves no pending card behind.
C29_PendingIffSuitSelection ==
    /\ pendingWildCard # NoCard <=> Status = "suit_selection"
    /\ pendingWildCard # NoCard =>
          /\ pendingWildCard.rank = WildRank
          /\ Holds(pendingWildCard)
    /\ (lastOp.op = "initGame" /\ lastOp.outcome = "dealt") => pendingWildCard = NoCard
    /\ (lastOp.op = "undo" /\ lastOp.outcome = "restored") => pendingWildCard = NoCard

\* g descends from a deal: its draw pile is what is left of the dealt draw pile
\* and the bottom of its discard pile is the opening card of that deal
DescendsFrom(g, deal) ==
    /\ Len(g.deck) <= Len(deal.deck)
    /\ g.deck = SubSeq(deal.deck, 1, Len(g.deck))
    /\ Len(g.discardPile) > 0
    /\ Last(g.discardPile) = deal.discardPile[1]

\* C30: a deal leaves the history empty, every history entry is a snapshot of the game
\* dealt last, and an undo restores a state of that game.
C30_HistoryOfCurrentGame ==
    [][ /\ (lastOp'.op = "initGame" /\ lastOp'.outcome = "dealt") => Len(history') = 0
        /\ \A i \in 1..Len(history') : DescendsFrom(history'[i], lastDeal')
        /\ (lastOp'.op = "undo" /\ lastOp'.outcome = "restored") =>
              /\ lastDeal' = lastDeal
              /\ DescendsFrom(gameState', lastDeal)
      ]_vars

\* a game restarted while a wild card was pending, hence with a move on the undo stack:
\* the new game starts with an empty history
C30_Witness ==
    /\ lastOp.op = "initGame" /\ lastOp.outcome = "dealt"
    /\ pendingWildCard # NoCard
    /\ gameState = lastDeal
    /\ Len(history) = 0

TableUnchanged ==
    /\ gameState'.playerHand = gameState.playerHand
    /\ gameState'.aiHand = gameState.aiHand
    /\ gameState'.deck = gameState.deck
    /\ gameState'.discardPile = gameState.discardPile
    /\ gameState'.currentSuit = gameState.currentSuit
    /\ gameState'.currentRank = gameState.currentRank
    /\ gameState'.winner = gameState.winner

\* the part of C31 about single steps: in a stalemate a playCard, a drawCard or an
\* opponent step leaves hands, piles and the active suit and rank alone and moves the
\* phase only between human-turn and opponent-turn
C31_StalemateStep ==
    [][ (Stalemate /\ lastOp'.op \in {"playCard", "drawCard", "aiTimer"}) =>
            /\ TableUnchanged
            /\ gameState'.status \in {"player_turn", "ai_turn"}
      ]_vars

\* C31: a stalemate is absorbing: a playCard, a drawCard or an opponent step changes no
\* hand, no pile and not the active suit or rank, only the phase between human-turn and
\* opponent-turn, and every step other than an undo or a restart ends in a stalemate
\* again, so finished is not reached.
C31_StalemateAbsorbing ==
    [][ /\ (Stalemate /\ lastOp'.op \in {"playCard", "drawCard", "aiTimer"}) =>
              /\ TableUnchanged
              /\ gameState'.status \in {"player_turn", "ai_turn"}
        /\ (Stalemate /\ lastOp'.op \notin {"undo", "initGame"}) =>
              /\ Stalemate'
              /\ gameState'.status # "game_over"
      ]_vars

\* the suit held most often in a hand, the latest of SUITS among those held equally often
MostHeld(hand) ==
    SUITS[CHOOSE i \in 1..Len(SUITS) :
        /\ \A j \in 1..Len(SUITS) : CountOfSuit(hand, SUITS[j]) <= CountOfSuit(hand, SUITS[i])
        /\ \A j \in (i + 1)..Len(SUITS) : CountOfSuit(hand, SUITS[j]) < CountOfSuit(hand, SUITS[i])]

\* what the opponent does, written as a function of its hand in order, the active suit,
\* the active rank and the draw pile
OpponentDecision(hand, suit, rank, deck) ==
    LET legal == {i \in 1..Len(hand) : canPlayCard(hand[i], suit, rank)}
        plain == {i \in legal : hand[i].rank # WildRank}
        card == hand[IF plain # {} THEN FirstOf(plain) ELSE FirstOf(legal)]
    IN IF legal # {}
       THEN [kind |-> "played", card |-> card,
             suit |-> IF card.rank = WildRank THEN MostHeld(FilterOut(hand, card))
                      ELSE card.suit]
       ELSE IF Len(deck) > 0
       THEN [kind |-> "drew", card |-> deck[Len(deck)], suit |-> suit]
       ELSE [kind |-> "forfeit", card |-> NoCard, suit |-> suit]

\* what the opponent step from the current state to the next has done
ObservedDecision ==
    [kind |-> lastOp'.outcome,
     card |-> IF lastOp'.outcome = "played" THEN Head(gameState'.discardPile)
              ELSE IF lastOp'.outcome = "drew" THEN Last(gameState'.aiHand)
              ELSE NoCard,
     suit |-> gameState'.currentSuit]

\* the part of C32 about the opponent's choice: every opponent step does what
\* OpponentDecision gives for the opponent hand, active suit, active rank and draw pile
C32_OpponentDeterministic ==
    [][lastOp'.op = "aiTimer" =>
          ObservedDecision = OpponentDecision(gameState.aiHand, gameState.currentSuit,
                                              gameState.currentRank, gameState.deck)]_vars

UndoJustMade == Len(undone) = 2 /\ Status = "ai_turn"
UndoFollowedPlay == undone[2].op = "aiTimer" /\ undone[2].outcome = "played"

C33_SecondCommandSeesCurrentState ==
    [][(rendered # <<>> /\ rendered' = <<>> /\ lastOp'.op \in {"playCard", "drawCard"})
       => /\ Status # "player_turn" => (gameState' = gameState /\ history' = history)
          /\ Conserved(gameState) => Conserved(gameState')]_vars

====
